---- MODULE Spec2Model ----
(***************************************************************************)
(* The Proposal Response Pipeline of EffredRFP: the answer generator       *)
(* (services/ai.service.js, functional version), the knowledge search      *)
(* (searchKnowledgeBase and POST /knowledge/search), the document service  *)
(* (text extraction, extractQuestionsFromText, categorizQuestion,          *)
(* cleanText), the bulk uploads, and the per-question lifecycle of a       *)
(* Proposal under the generate-answer, bulk-generate, answer-update, PATCH *)
(* and DELETE requests (routes/ai.routes.js, the proposals routes and      *)
(* ProposalService).                                                       *)
(*                                                                         *)
(* In the generator and the lifecycle a text is a sequence of atoms: the   *)
(* whitespace characters are atoms of their own and every other atom       *)
(* stands for a run of non-whitespace characters, so that trim and         *)
(* emptiness are computed, not assumed; a prompt is abstracted to the set  *)
(* of fallback keywords it contains (String.prototype.includes distributes *)
(* over the concatenation that builds the prompt, and the fixed template   *)
(* text holds none of them).  In the knowledge search and the document     *)
(* service a text is the sequence of its characters.                       *)
(***************************************************************************)
EXTENDS Integers, Sequences, FiniteSets, TLC

\* ------------------------------------------------------------------ bounds

\* Number of questions of the Proposal.
NumQ == 3

\* Number of requests served in one behaviour.
NumReq == 2

\* ------------------------------------------------------- values of the code

\* JavaScript values that one field can hold in more than one type are tagged
\* with their type: null, undefined, a string (its characters) or a number.
Null == [type |-> "null"]
Undef == [type |-> "undefined"]
Text(t) == [type |-> "string", chars |-> t]
Number(n) == [type |-> "number", n |-> n]

\* Truthiness of a tagged value: null, undefined and '' are falsy.
Truthy(v) == v.type = "number" \/ (v.type = "string" /\ v.chars # << >>)

\* Fields that only ever hold a string are plain strings: a status (the empty
\* string also stands for an absent, falsy one), an error name, an error code.
NoStatus == ""
NoName == "undefined"

\* 0.85, in hundredths.
CONFIDENCE == 85

\* A timestamp (new Date().toISOString()); its value is never compared.
Stamp == Text(<<"2026-01-01T00:00:00.000Z">>)

\* The id of the requesting user (req.user.id).
UserId == Text(<<"user">>)

SP == " "

\* ------------------------------------------------------- the answer generator

\* The keywords generateFallbackResponse looks for in the prompt.
Keywords == {"security", "experience", "timeline", "cost", "price"}

\* The characters \s matches, which are also those trim removes.
IsSpace(c) == c \in {" ", "\t", "\n", "\r", "\f"}

\* String.prototype.trim on a text.
RECURSIVE TrimLeft(_)
TrimLeft(t) ==
  IF t = << >> THEN << >>
  ELSE IF IsSpace(Head(t)) THEN TrimLeft(Tail(t)) ELSE t

RECURSIVE TrimRight(_)
TrimRight(t) ==
  IF t = << >> THEN << >>
  ELSE IF IsSpace(t[Len(t)]) THEN TrimRight(SubSeq(t, 1, Len(t) - 1)) ELSE t

Trim(t) == TrimRight(TrimLeft(t))

\* The keywords of the prompt generateAnswer builds: the template holds none,
\* the context is embedded only when it is truthy (non-empty).
PromptKeywords(questionKw, contextKw, hasContext) ==
  questionKw \cup (IF hasContext THEN contextKw ELSE {})

\* generateFallbackResponse(prompt): the first matching branch wins.
generateFallbackResponse(promptKw) ==
  IF "security" \in promptKw THEN <<"We implement industry-standard security measures">>
  ELSE IF "experience" \in promptKw THEN <<"Our team has extensive experience">>
  ELSE IF "timeline" \in promptKw THEN <<"We can deliver the project within the specified timeline">>
  ELSE IF "cost" \in promptKw \/ "price" \in promptKw
       THEN <<"Our pricing is competitive and transparent">>
  ELSE <<"Thank you for your question">>

\* What bedrockClient.send and the decoding of its response can do:
\*   ok        the response body holds content[0].text = text
\*   notext    the body parses and content[0] exists, but holds no text field
\*   malformed the body does not parse, or holds no content[0] (an exception
\*             inside invokeModel's try block, with no name/code of interest)
\*   error     send rejects with an error of the given name and code
ErrorNames == {"ResourceNotFoundException", "ThrottlingException", "Error"}
ErrorCodes == {"ENOTFOUND", "ECONNRESET", NoName}

ModelTexts == { <<"a">>, <<"b">>, <<SP, "a", SP>>, <<SP>>, << >> }

Outcomes ==
  [kind : {"ok"}, text : ModelTexts, name : {NoName}, code : {NoName}]
    \cup [kind : {"notext", "malformed"}, text : {<< >>}, name : {NoName}, code : {NoName}]
    \cup [kind : {"error"}, text : {<< >>}, name : ErrorNames, code : ErrorCodes]

\* The error message invokeModel throws.
FailedMessage == "Failed to generate AI response"

\* The TypeError of calling .trim() on undefined.
TrimTypeError == "Cannot read properties of undefined (reading 'trim')"

\* How a call ends: it returns a value, or throws an Error with a message.
Returned(v) == [threw |-> FALSE, value |-> v, message |-> ""]
Thrown(m) == [threw |-> TRUE, value |-> Undef, message |-> m]

\* The condition under which invokeModel falls back instead of throwing.
IsFallbackErrorAlways(o) == o.kind = "error"

IsFallbackError(o) ==
  o.kind = "error" /\ (o.name = "ResourceNotFoundException" \/ o.code = "ENOTFOUND")

\* invokeModel(prompt, options): the model's text, the fallback text, or a throw.
invokeModel(promptKw, o) ==
  IF o.kind = "ok" THEN Returned(Text(o.text))
  ELSE IF o.kind = "notext" THEN Returned(Undef)
  ELSE IF IsFallbackError(o) THEN Returned(Text(generateFallbackResponse(promptKw)))
  ELSE Thrown(FailedMessage)

generateAnswerUnmarked(questionKw, contextKw, hasContext, o) ==
  LET r == invokeModel(PromptKeywords(questionKw, contextKw, hasContext), o) IN
  IF r.threw THEN r
  ELSE IF r.value = Undef THEN Thrown(TrimTypeError)
  ELSE Returned([answer |-> Text(Trim(r.value.chars)),
                 confidence |-> Number(CONFIDENCE),
                 sources |-> <<"AI Generated">>,
                 generatedAt |-> Stamp])

\* generateAnswer(question, context): the GeneratedAnswer, or a rethrown error.
generateAnswer(questionKw, contextKw, hasContext, o) ==
  LET r == invokeModel(PromptKeywords(questionKw, contextKw, hasContext), o) IN
  IF r.threw THEN r
  ELSE IF r.value = Undef THEN Thrown(TrimTypeError)
  ELSE Returned([answer |-> Text(Trim(r.value.chars)),
                 confidence |-> Number(CONFIDENCE),
                 sources |-> IF hasContext THEN <<"Knowledge Base">> ELSE <<"AI Generated">>,
                 generatedAt |-> Stamp])

\* The keywords of the prompt improveAnswer builds: the question, the current
\* answer and the feedback are all embedded; the template holds none.
ImprovePromptKeywords(currentKw, feedbackKw, questionKw) ==
  questionKw \cup currentKw \cup feedbackKw

\* improveAnswer(currentAnswer, feedback, question): the text invokeModel
\* returned, trimmed, or a rethrown error.
improveAnswer(currentKw, feedbackKw, questionKw, o) ==
  LET r == invokeModel(ImprovePromptKeywords(currentKw, feedbackKw, questionKw), o) IN
  IF r.threw THEN r
  ELSE IF r.value = Undef THEN Thrown(TrimTypeError)
  ELSE Returned(Text(Trim(r.value.chars)))

\* ------------------------------------------------------ the knowledge search

\* In the search a text is the sequence of its characters, so that toLowerCase,
\* split and includes are computed character by character.

\* Longest pool of knowledge entries, largest topK or limit a caller passes.
MaxPool == 4
MaxLimit == 2

\* The letters, in both cases.
LowerLetters == <<"a", "b", "c", "d", "e", "f", "g", "h", "i", "j", "k", "l", "m", "n", "o", "p", "q", "r", "s", "t", "u", "v", "w", "x", "y", "z">>
UpperLetters == <<"A", "B", "C", "D", "E", "F", "G", "H", "I", "J", "K", "L", "M", "N", "O", "P", "Q", "R", "S", "T", "U", "V", "W", "X", "Y", "Z">>

\* String.prototype.toLowerCase and toUpperCase.
LowerOf ==
  [c \in {UpperLetters[i] : i \in 1..Len(UpperLetters)} |->
     LowerLetters[CHOOSE i \in 1..Len(UpperLetters) : UpperLetters[i] = c]]
LowerChar(c) == IF c \in DOMAIN LowerOf THEN LowerOf[c] ELSE c
ToLowerCase(t) == [i \in 1..Len(t) |-> LowerChar(t[i])]

UpperOf ==
  [c \in {LowerLetters[i] : i \in 1..Len(LowerLetters)} |->
     UpperLetters[CHOOSE i \in 1..Len(LowerLetters) : LowerLetters[i] = c]]
UpperChar(c) == IF c \in DOMAIN UpperOf THEN UpperOf[c] ELSE c
ToUpperCase(t) == [i \in 1..Len(t) |-> UpperChar(t[i])]

\* String.prototype.includes: the empty text is included in every text.
Includes(t, w) ==
  \E i \in 0..(Len(t) - Len(w)) : \A j \in 1..Len(w) : t[i + j] = w[j]

\* The first position from i on that holds no whitespace (Len(t) + 1 if none).
RECURSIVE SkipSpace(_, _)
SkipSpace(t, i) ==
  IF i > Len(t) THEN i ELSE IF IsSpace(t[i]) THEN SkipSpace(t, i + 1) ELSE i

\* String.prototype.split(/\s+/): a leading or trailing run of whitespace
\* leaves an empty token, and the empty text splits into one empty token.
RECURSIVE SplitFrom(_, _, _)
SplitFrom(t, i, cur) ==
  IF i > Len(t) THEN <<cur>>
  ELSE IF IsSpace(t[i]) THEN <<cur>> \o SplitFrom(t, SkipSpace(t, i), << >>)
  ELSE SplitFrom(t, i + 1, Append(cur, t[i]))

SplitOnWhitespace(t) == SplitFrom(t, 1, << >>)

\* (value || ''): the characters of a string field, none when it is missing.
OrEmpty(v) == IF Truthy(v) THEN v.chars ELSE << >>

\* The forEach over the query words: 2 for the content, 5 for the title.
RECURSIVE ScoreWords(_, _, _)
ScoreWords(words, content, title) ==
  IF words = << >> THEN 0
  ELSE (IF Includes(content, Head(words)) THEN 2 ELSE 0)
       + (IF Includes(title, Head(words)) THEN 5 ELSE 0)
       + ScoreWords(Tail(words), content, title)

\* The score searchKnowledgeBase gives one document.
DocScore(doc, queryWords) ==
  ScoreWords(queryWords, ToLowerCase(OrEmpty(doc.content)), ToLowerCase(OrEmpty(doc.title)))

\* Array.prototype.filter over scored items, as positions.
RECURSIVE FilterPositive(_, _)
FilterPositive(scores, i) ==
  IF i > Len(scores) THEN << >>
  ELSE IF scores[i] > 0 THEN <<i>> \o FilterPositive(scores, i + 1)
  ELSE FilterPositive(scores, i + 1)

\* Array.prototype.sort((a, b) => b.score - a.score): a stable sort, so an item
\* goes behind every item already placed whose score is not smaller.
RECURSIVE InsertByScore(_, _, _)
InsertByScore(sorted, x, scores) ==
  IF sorted = << >> THEN <<x>>
  ELSE IF scores[Head(sorted)] >= scores[x]
       THEN <<Head(sorted)>> \o InsertByScore(Tail(sorted), x, scores)
  ELSE <<x>> \o sorted

RECURSIVE SortByScore(_, _)
SortByScore(items, scores) ==
  IF items = << >> THEN << >>
  ELSE InsertByScore(SortByScore(SubSeq(items, 1, Len(items) - 1), scores),
                     items[Len(items)], scores)

\* Array.prototype.slice(0, n).
Slice(items, n) == SubSeq(items, 1, IF n < Len(items) THEN n ELSE Len(items))

\* The positions in knowledgeBase of relevantDocs: filter, sort, slice(0, 3).
relevantDocs(query, knowledgeBase) ==
  LET queryWords == SplitOnWhitespace(ToLowerCase(query))
      scores == [i \in 1..Len(knowledgeBase) |-> DocScore(knowledgeBase[i], queryWords)]
  IN Slice(SortByScore(FilterPositive(scores, 1), scores), 3)

\* The TypeError of doc.content.substring on a document without content.
SubstringTypeError == "Cannot read properties of undefined (reading 'substring')"

\* searchKnowledgeBase(query, knowledgeBase): the context text, one piece per
\* relevant document ('' when there is none); each piece is tagged with the
\* position of its document. Rendering a document without content throws.
searchKnowledgeBase(query, knowledgeBase) ==
  LET docs == relevantDocs(query, knowledgeBase) IN
  IF \E i \in 1..Len(docs) : knowledgeBase[docs[i]].content.type # "string"
  THEN Thrown(SubstringTypeError)
  ELSE Returned([i \in 1..Len(docs) |->
                  [pos |-> docs[i], title |-> knowledgeBase[docs[i]].title,
                   content |-> Slice(knowledgeBase[docs[i]].content.chars, 500)]])

\* The error POST /knowledge/search throws without a query.
QueryRequired == "Search query is required"

\* The limit of POST /knowledge/search when the body holds none.
DEFAULT_LIMIT == 10

\* item.tags.some(tag => tag.toLowerCase().includes(term))
SomeTagIncludes(tags, term) ==
  \E i \in 1..Len(tags) : Includes(ToLowerCase(tags[i]), term)

\* The forEach over the search terms of the route: 5 for the title, 2 for the
\* content, 3 for the tags.
RECURSIVE RelevanceScore(_, _)
RelevanceScore(item, terms) ==
  IF terms = << >> THEN 0
  ELSE (IF Includes(ToLowerCase(OrEmpty(item.title)), Head(terms)) THEN 5 ELSE 0)
       + (IF Includes(ToLowerCase(OrEmpty(item.content)), Head(terms)) THEN 2 ELSE 0)
       + (IF SomeTagIncludes(item.tags, Head(terms)) THEN 3 ELSE 0)
       + RelevanceScore(item, Tail(terms))

\* POST /knowledge/search: the Scan evaluates at most Limit items of the
\* table, the items read are scored, filtered, sorted and sliced to limit.
\* limit = 0 stands for a body without limit.
searchRoute(query, table, limit) ==
  IF query = << >> THEN Thrown(QueryRequired)
  ELSE
    LET n == IF limit = 0 THEN DEFAULT_LIMIT ELSE limit
        items == Slice(table, n)
        searchTerms == SplitOnWhitespace(ToLowerCase(query))
        scores == [i \in 1..Len(items) |-> RelevanceScore(items[i], searchTerms)]
        results == Slice(SortByScore(FilterPositive(scores, 1), scores), n)
    IN Returned([i \in 1..Len(results) |->
                  [pos |-> results[i], relevanceScore |-> scores[results[i]]]])

\* ------------------------------------------------------ the document service

\* The keywords of categorizQuestion, per category.
PricingWords ==
  { <<"p", "r", "i", "c", "e">>,
    <<"c", "o", "s", "t">>,
    <<"b", "u", "d", "g", "e", "t">>,
    <<"p", "a", "y", "m", "e", "n", "t">> }
TechnicalWords ==
  { <<"t", "e", "c", "h", "n", "i", "c", "a", "l">>,
    <<"t", "e", "c", "h", "n", "o", "l", "o", "g", "y">>,
    <<"a", "r", "c", "h", "i", "t", "e", "c", "t", "u", "r", "e">>,
    <<"i", "n", "t", "e", "g", "r", "a", "t", "i", "o", "n">> }
TimelineWords ==
  { <<"t", "i", "m", "e", "l", "i", "n", "e">>,
    <<"s", "c", "h", "e", "d", "u", "l", "e">>,
    <<"d", "e", "l", "i", "v", "e", "r", "y">>,
    <<"d", "e", "a", "d", "l", "i", "n", "e">> }
ExperienceWords ==
  { <<"e", "x", "p", "e", "r", "i", "e", "n", "c", "e">>,
    <<"q", "u", "a", "l", "i", "f", "i", "c", "a", "t", "i", "o", "n">>,
    <<"r", "e", "f", "e", "r", "e", "n", "c", "e">>,
    <<"p", "o", "r", "t", "f", "o", "l", "i", "o">> }
SecurityWords ==
  { <<"s", "e", "c", "u", "r", "i", "t", "y">>,
    <<"c", "o", "m", "p", "l", "i", "a", "n", "c", "e">>,
    <<"p", "r", "i", "v", "a", "c", "y">>,
    <<"g", "d", "p", "r">> }
SupportWords ==
  { <<"s", "u", "p", "p", "o", "r", "t">>,
    <<"m", "a", "i", "n", "t", "e", "n", "a", "n", "c", "e">>,
    <<"w", "a", "r", "r", "a", "n", "t", "y">>,
    <<"s", "l", "a">> }

\* lowerQuestion.includes(w) for one of the words of a category.
IncludesAny(t, words) == \E w \in words : Includes(t, w)

categorizQuestionSecurityFirst(question) ==
  LET lowerQuestion == ToLowerCase(question) IN
  IF IncludesAny(lowerQuestion, SecurityWords) THEN "security"
  ELSE IF IncludesAny(lowerQuestion, PricingWords) THEN "pricing"
  ELSE IF IncludesAny(lowerQuestion, TechnicalWords) THEN "technical"
  ELSE IF IncludesAny(lowerQuestion, TimelineWords) THEN "timeline"
  ELSE IF IncludesAny(lowerQuestion, ExperienceWords) THEN "experience"
  ELSE IF IncludesAny(lowerQuestion, SupportWords) THEN "support"
  ELSE "general"

\* categorizQuestion(question): the else-if chain, first match wins.
categorizQuestion(question) ==
  LET lowerQuestion == ToLowerCase(question) IN
  IF IncludesAny(lowerQuestion, PricingWords) THEN "pricing"
  ELSE IF IncludesAny(lowerQuestion, TechnicalWords) THEN "technical"
  ELSE IF IncludesAny(lowerQuestion, TimelineWords) THEN "timeline"
  ELSE IF IncludesAny(lowerQuestion, ExperienceWords) THEN "experience"
  ELSE IF IncludesAny(lowerQuestion, SecurityWords) THEN "security"
  ELSE IF IncludesAny(lowerQuestion, SupportWords) THEN "support"
  ELSE "general"

\* String.prototype.split('\n'): the pieces between the newlines, empty ones
\* included; piece k runs from behind newline k - 1 to before newline k.
SplitLines(t) ==
  LET newlines == {i \in 1..Len(t) : t[i] = "\n"}
      Newline(k) == CHOOSE i \in newlines : Cardinality({j \in newlines : j < i}) = k - 1
      from(k) == IF k = 1 THEN 1 ELSE Newline(k - 1) + 1
      to(k) == IF k = Cardinality(newlines) + 1 THEN Len(t) ELSE Newline(k) - 1
  IN [k \in 1..(Cardinality(newlines) + 1) |-> SubSeq(t, from(k), to(k))]

\* The character classes of the patterns: \d, [a-z] with the i flag, [\.)]
\* and the bullets ("u2022" is the one character U+2022).
IsDigit(c) == c \in {"0", "1", "2", "3", "4", "5", "6", "7", "8", "9"}
IsLetter(c) == c \in DOMAIN LowerOf \/ c \in DOMAIN UpperOf
IsEnumEnd(c) == c \in {".", ")"}
IsBullet(c) == c \in {"u2022", "-", "*"}

\* The length of the run of digits a text starts with (\d+ is greedy).
RECURSIVE CountDigits(_, _)
CountDigits(t, i) ==
  IF i <= Len(t) /\ IsDigit(t[i]) THEN 1 + CountDigits(t, i + 1) ELSE 0

\* The text from position i on.
DropTo(t, i) == SubSeq(t, i, Len(t))

\* /^\d+[\.)]\s/, /^[a-z][\.)]\s/i, /^[\u2022\-\*]\s/ and endsWith('?').
StartsNumbered(line) ==
  LET n == CountDigits(line, 1) IN
  n >= 1 /\ Len(line) >= n + 2 /\ IsEnumEnd(line[n + 1]) /\ IsSpace(line[n + 2])
StartsLettered(line) ==
  Len(line) >= 3 /\ IsLetter(line[1]) /\ IsEnumEnd(line[2]) /\ IsSpace(line[3])
StartsBulleted(line) == Len(line) >= 2 /\ IsBullet(line[1]) /\ IsSpace(line[2])
EndsWithQuestionMark(line) == Len(line) >= 1 /\ line[Len(line)] = "?"

isQuestion(line) ==
  StartsNumbered(line) \/ StartsLettered(line) \/ StartsBulleted(line)
    \/ EndsWithQuestionMark(line)

\* replace(/^\d+[\.)]\s*/, ''), replace(/^[a-z][\.)]\s*/i, '') and
\* replace(/^[\u2022\-\*]\s*/, ''): the whitespace after the mark is optional.
RemoveNumbering(t) ==
  LET n == CountDigits(t, 1) IN
  IF n >= 1 /\ Len(t) >= n + 1 /\ IsEnumEnd(t[n + 1])
  THEN DropTo(t, SkipSpace(t, n + 2)) ELSE t
RemoveLetterNumbering(t) ==
  IF Len(t) >= 2 /\ IsLetter(t[1]) /\ IsEnumEnd(t[2])
  THEN DropTo(t, SkipSpace(t, 3)) ELSE t
RemoveBullet(t) ==
  IF Len(t) >= 1 /\ IsBullet(t[1]) THEN DropTo(t, SkipSpace(t, 2)) ELSE t

CleanQuestionNumberingOnly(line) == Trim(RemoveNumbering(line))

\* The cleaned question text of a line.
CleanQuestion(line) == Trim(RemoveBullet(RemoveLetterNumbering(RemoveNumbering(line))))

\* The section header test: all caps, longer than 3 and shorter than 50.
IsSectionHeader(line) == line = ToUpperCase(line) /\ Len(line) > 3 /\ Len(line) < 50

SkippedAbove501(questionText) == Len(questionText) < 10 \/ Len(questionText) > 501

\* Skip if too short or too long.
IsSkipped(questionText) == Len(questionText) < 10 \/ Len(questionText) > 500

\* The label of the section before any header.
DefaultSection == <<"G", "e", "n", "e", "r", "a", "l">>

\* The body of the for loop from line i on; a question carries the ordinal n
\* of its id q<n> and, as history, the number of the line it came from.
RECURSIVE ScanLines(_, _, _, _, _)
ScanLines(lines, i, questionNumber, currentSection, questions) ==
  IF i > Len(lines) THEN questions
  ELSE
    LET line == Trim(lines[i]) IN
    IF line = << >> THEN ScanLines(lines, i + 1, questionNumber, currentSection, questions)
    ELSE IF IsSectionHeader(line) THEN ScanLines(lines, i + 1, questionNumber, line, questions)
    ELSE IF ~isQuestion(line)
         THEN ScanLines(lines, i + 1, questionNumber, currentSection, questions)
    ELSE
      LET questionText == CleanQuestion(line) IN
      IF IsSkipped(questionText)
      THEN ScanLines(lines, i + 1, questionNumber + 1, currentSection, questions)
      ELSE ScanLines(lines, i + 1, questionNumber + 1, currentSection,
             Append(questions,
               [id |-> questionNumber + 1, question |-> questionText,
                section |-> currentSection, category |-> categorizQuestion(questionText),
                status |-> "pending", draftAnswer |-> Null, finalAnswer |-> Null,
                confidence |-> Null, sources |-> << >>, line |-> i]))

\* extractQuestionsFromText(text)
extractQuestionsFromText(text) == ScanLines(SplitLines(text), 1, 0, DefaultSection, << >>)

\* The characters of \s, of [^\S\n], of [\r\n] and of \n, as sets.
Whitespace == {" ", "\t", "\n", "\r", "\f"}
WhitespaceNoNewline == Whitespace \ {"\n"}
LineBreaks == {"\r", "\n"}
Newlines == {"\n"}

\* The first position from i on that holds no character of the class.
RECURSIVE RunEnd(_, _, _)
RunEnd(t, i, class) ==
  IF i > Len(t) THEN i ELSE IF t[i] \in class THEN RunEnd(t, i + 1, class) ELSE i

\* replace(/[class]{min,}/g, to): every maximal run of at least min characters
\* of the class is replaced by to.
RECURSIVE ReplaceRuns(_, _, _, _, _)
ReplaceRuns(t, i, class, min, to) ==
  IF i > Len(t) THEN << >>
  ELSE IF t[i] \in class
       THEN LET e == RunEnd(t, i, class) IN
            (IF e - i >= min THEN to ELSE SubSeq(t, i, e - 1))
              \o ReplaceRuns(t, e, class, min, to)
  ELSE <<t[i]>> \o ReplaceRuns(t, i + 1, class, min, to)

\* replace(/\r\n/g, '\n')
RECURSIVE ReplaceCRLF(_, _)
ReplaceCRLF(t, i) ==
  IF i > Len(t) THEN << >>
  ELSE IF t[i] = "\r" /\ i < Len(t) /\ t[i + 1] = "\n"
       THEN <<"\n">> \o ReplaceCRLF(t, i + 2)
  ELSE <<t[i]>> \o ReplaceCRLF(t, i + 1)

\* replace(/\f/g, '\n')
ReplaceFormFeeds(t) == [i \in 1..Len(t) |-> IF t[i] = "\f" THEN "\n" ELSE t[i]]

cleanTextKeepingBlanks(text) ==
  Trim(ReplaceRuns(
         ReplaceRuns(ReplaceCRLF(text, 1), 1, Newlines, 3, <<"\n", "\n">>),
         1, Whitespace, 2, <<" ">>))

\* cleanText(text) of the document service.
cleanText(text) ==
  Trim(ReplaceRuns(
         ReplaceRuns(
           ReplaceRuns(ReplaceCRLF(text, 1), 1, Newlines, 3, <<"\n", "\n">>),
           1, Whitespace, 2, <<" ">>),
         1, WhitespaceNoNewline, 1, <<" ">>))

\* DocumentProcessorService.cleanText(text)
DocumentProcessorService_cleanText(text) ==
  Trim(ReplaceRuns(
         ReplaceFormFeeds(ReplaceRuns(text, 1, Whitespace, 1, <<" ">>)),
         1, LineBreaks, 3, <<"\n", "\n">>))

\* The media types a file is uploaded with.
PDF == "application/pdf"
DOCX == "application/vnd.openxmlformats-officedocument.wordprocessingml.document"
DOC == "application/msword"
PLAIN == "text/plain"

\* extractTextFromPDF(buffer), given how pdf-parse ended on the buffer:
\* data.text, or the parser's error replaced by a fixed one.
extractTextFromPDF(parsed) ==
  IF parsed.threw THEN Thrown("Failed to extract text from PDF")
  ELSE Returned(parsed.value)

\* extractTextFromDocx(buffer), given how mammoth ended on the buffer.
extractTextFromDocx(parsed) ==
  IF parsed.threw THEN Thrown("Failed to extract text from DOCX")
  ELSE Returned(parsed.value)

\* buffer.toString('utf-8') on bytes below 0x80 and bytes that start no valid
\* sequence: an ASCII byte is its character, an invalid byte is U+FFFD
\* (written "ufffd").
DecodeByte(b) ==
  IF b = 97 THEN "a" ELSE IF b = 10 THEN "\n" ELSE IF b = 32 THEN " " ELSE "ufffd"

ToStringUtf8(buffer) == [i \in 1..Len(buffer) |-> DecodeByte(buffer[i])]

UnsupportedFileType == "Unsupported file type"

\* extractTextFromFile(buffer, mimeType)
extractTextFromFile(buffer, mimeType, parsed) ==
  IF mimeType = PDF THEN extractTextFromPDF(parsed)
  ELSE IF mimeType = DOCX \/ mimeType = DOC THEN extractTextFromDocx(parsed)
  ELSE IF mimeType = PLAIN THEN Returned(Text(ToStringUtf8(buffer)))
  ELSE Thrown(UnsupportedFileType)

\* DocumentProcessorService.processDocument(buffer, mimeType): the catch
\* logs and rethrows the same error.
processDocument(buffer, mimeType, parsed) ==
  IF mimeType = PDF THEN extractTextFromPDF(parsed)
  ELSE IF mimeType = DOCX THEN extractTextFromDocx(parsed)
  ELSE Thrown(UnsupportedFileType)

\* ------------------------------------------------------------ the Proposal

VARIABLES
  stored,   \* the questions attribute of the Proposal item in TABLES.PROPOSALS
  nwrites,  \* history: how many times the questions attribute has been written
  req,      \* the requests: each one's position and the locals of its handler
  call,     \* a direct call of generateAnswer: its arguments and its outcome
  item      \* the Proposal item itself: whether it is in the table, its status

vars == <<stored, nwrites, req, call, item>>

Req == 1..NumReq

\* The ids the segmenter mints are q1, q2, ...; NumQ + 1 is an id of no question.
QuestionIds == 1..(NumQ + 1)

\* The keywords in the text of the question the segmenter minted as q<i>.
QuestionKw(i) ==
  IF i % 3 = 1 THEN {"security"} ELSE IF i % 3 = 2 THEN {} ELSE {"cost", "price"}

\* A question as extractQuestionsFromText creates it.
NewQuestion(i) ==
  [id |-> i, status |-> "pending", draftAnswer |-> Null, finalAnswer |-> Null,
   confidence |-> Null, sources |-> << >>, generatedAt |-> Undef, updatedBy |-> Undef]

\* Array.prototype.findIndex(q => q.id === id): the first match, 0 for -1.
FindIndex(qs, id) ==
  IF \E i \in 1..Len(qs) : qs[i].id = id
  THEN CHOOSE i \in 1..Len(qs) : qs[i].id = id /\ \A j \in 1..(i - 1) : qs[j].id # id
  ELSE 0

\* questions.filter(q => q.status === 'pending'), as positions in questions
\* (the filtered array holds the same objects as questions).
RECURSIVE PendingFrom(_, _)
PendingFrom(qs, i) ==
  IF i > Len(qs) THEN << >>
  ELSE IF qs[i].status = "pending" THEN <<i>> \o PendingFrom(qs, i + 1)
  ELSE PendingFrom(qs, i + 1)

AllQuestions(qs) == [i \in 1..Len(qs) |-> i]

PendingQuestions(qs) == PendingFrom(qs, 1)

ApplyDraftClearFinal(q, result) ==
  [q EXCEPT !.draftAnswer = result.answer, !.finalAnswer = Null,
            !.confidence = result.confidence, !.sources = result.sources,
            !.status = "draft", !.generatedAt = result.generatedAt]

ApplyDraftAsFinal(q, result) ==
  [q EXCEPT !.draftAnswer = result.answer, !.finalAnswer = result.answer,
            !.confidence = result.confidence, !.sources = result.sources,
            !.status = "draft", !.generatedAt = result.generatedAt]

\* The five assignments both generation handlers make to questions[index].
ApplyDraft(q, result) ==
  [q EXCEPT !.draftAnswer = result.answer, !.confidence = result.confidence,
            !.sources = result.sources, !.status = "draft",
            !.generatedAt = result.generatedAt]

MergeTarget(current, qs, idx) ==
  IF idx \in 1..Len(current) /\ idx \in 1..Len(qs)
  THEN [current EXCEPT ![idx] = qs[idx]] ELSE current

\* SET questions = :questions: the whole list the handler holds replaces the
\* stored one, unconditionally.
PutQuestions(current, qs, idx) == qs

\* The model outcomes and request texts the routes are exercised with.
RouteOutcomes ==
  { [kind |-> "ok", text |-> <<SP, "a", SP>>, name |-> NoName, code |-> NoName],
    [kind |-> "error", text |-> << >>, name |-> "Error", code |-> "ENOTFOUND"],
    [kind |-> "error", text |-> << >>, name |-> "ThrottlingException", code |-> NoName] }

NoRequest ==
  [kind |-> "none", pc |-> "idle", qid |-> 0, idx |-> 0, qs |-> << >>, readQs |-> << >>,
   pend |-> << >>, k |-> 0, results |-> << >>, readAt |-> 0, wroteAt |-> 0,
   code |-> 0, out |-> Null, set |-> Null, invoked |-> << >>]

\* Once its response is sent nothing of a handler's locals is left.
Finished(q) == [NoRequest EXCEPT !.pc = "done"]

NoCall == [fn |-> "none"]

\* The Proposal item as the upload route puts it, and no item.
NewItem == [exists |-> TRUE, status |-> "draft"]
NoItem == [exists |-> FALSE, status |-> "none"]

InitProposal ==
  /\ \E n \in 0..NumQ : stored = [i \in 1..n |-> NewQuestion(i)]
  /\ nwrites = 0
  /\ req = [r \in Req |-> NoRequest]
  /\ item = NewItem

Init == InitProposal /\ call = NoCall

\* ------------------------------------------- POST /api/v1/ai/generate-answer

\* The keywords of req.body.question, the text the caller sends.
RequestKw == { {"timeline"} }

\* The handler up to its first await: the GetCommand reads the Proposal.
GenRead(r) ==
  /\ req[r].pc = "idle"
  /\ \E qid \in QuestionIds :
       req' = [req EXCEPT ![r] =
                 [NoRequest EXCEPT !.kind = "generate", !.pc = "generate", !.qid = qid,
                                   !.qs = stored, !.readQs = stored, !.readAt = nwrites]]
  /\ UNCHANGED <<stored, nwrites, call, item>>

\* generateAnswer(question, '') returns or throws; on a result the question
\* found by findIndex is updated in the handler's copy.
GenGenerate(r) ==
  /\ req[r].pc = "generate"
  /\ \E o \in RouteOutcomes, kw \in RequestKw :
       LET res == generateAnswer(kw, {}, FALSE, o)
           index == FindIndex(req[r].qs, req[r].qid)
       IN req' = [req EXCEPT ![r] =
            IF res.threw
            THEN [@ EXCEPT !.pc = "respond", !.code = 500, !.out = Text(<<res.message>>)]
            ELSE IF index # 0
            THEN [@ EXCEPT !.pc = "write", !.idx = index, !.out = res.value,
                           !.qs = [@ EXCEPT ![index] = ApplyDraft(@, res.value)]]
            ELSE [@ EXCEPT !.pc = "respond", !.code = 200, !.out = res.value]]
  /\ UNCHANGED <<stored, nwrites, call, item>>

\* The UpdateCommand: every handler that writes the question list ends here.
Write(r) ==
  /\ req[r].pc = "write"
  /\ stored' = PutQuestions(stored, req[r].qs, req[r].idx)
  /\ nwrites' = nwrites + 1
  /\ req' = [req EXCEPT ![r].pc = "respond", ![r].code = 200, ![r].wroteAt = nwrites + 1]
  /\ UNCHANGED <<call, item>>

\* res.json(...) or the error handler's response: the handler's locals die.
Respond(r) ==
  /\ req[r].pc = "respond"
  /\ req' = [req EXCEPT ![r] = Finished(@)]
  /\ UNCHANGED <<stored, nwrites, call, item>>

\* ---------------------------------------------- POST /api/v1/ai/bulk-generate

\* The GetCommand, the filter, and the 400 when nothing is pending.
BulkRead(r) ==
  /\ req[r].pc = "idle"
  /\ LET pend == PendingQuestions(stored)
         q == [NoRequest EXCEPT !.kind = "bulk", !.qs = stored, !.readQs = stored,
                                !.readAt = nwrites, !.pend = pend]
     IN req' = [req EXCEPT ![r] =
          IF Len(pend) = 0
          THEN [q EXCEPT !.pc = "respond", !.code = 400,
                         !.out = Text(<<"No pending questions found">>)]
          ELSE [q EXCEPT !.pc = "loop", !.k = 1]]
  /\ UNCHANGED <<stored, nwrites, call, item>>

\* One iteration of the for loop: the try block and its catch.
BulkIterationAbort(q, res) ==
  IF res.threw
  THEN [q EXCEPT !.pc = "respond", !.code = 500, !.out = Text(<<res.message>>),
                 !.invoked = Append(@, q.qs[q.pend[q.k]].id)]
  ELSE LET question == q.qs[q.pend[q.k]]
           index == FindIndex(q.qs, question.id)
       IN [q EXCEPT !.qs = IF index # 0 THEN [@ EXCEPT ![index] = ApplyDraft(@, res.value)] ELSE @,
                    !.results = Append(@, [questionId |-> question.id, success |-> TRUE, error |-> ""]),
                    !.invoked = Append(@, question.id),
                    !.k = @ + 1]

BulkIterationDropFailure(q, res) ==
  IF res.threw
  THEN [q EXCEPT !.k = @ + 1, !.invoked = Append(@, q.qs[q.pend[q.k]].id)]
  ELSE LET question == q.qs[q.pend[q.k]]
           index == FindIndex(q.qs, question.id)
       IN [q EXCEPT !.qs = IF index # 0 THEN [@ EXCEPT ![index] = ApplyDraft(@, res.value)] ELSE @,
                    !.results = Append(@, [questionId |-> question.id, success |-> TRUE, error |-> ""]),
                    !.invoked = Append(@, question.id),
                    !.k = @ + 1]

BulkIterationRetry(q, res) ==
  LET question == q.qs[q.pend[q.k]]
      index == FindIndex(q.qs, question.id)
  IN IF res.threw
     THEN [q EXCEPT !.results = Append(@, [questionId |-> question.id, success |-> FALSE,
                                           error |-> res.message]),
                    !.invoked = @ \o <<question.id, question.id>>,
                    !.k = @ + 1]
     ELSE [q EXCEPT !.qs = IF index # 0 THEN [@ EXCEPT ![index] = ApplyDraft(@, res.value)] ELSE @,
                    !.results = Append(@, [questionId |-> question.id, success |-> TRUE, error |-> ""]),
                    !.invoked = Append(@, question.id),
                    !.k = @ + 1]

\* invoked is history: the ids of the questions generateAnswer, and with it
\* the model, was called for, in the order of the calls.
BulkIteration(q, res) ==
  LET question == q.qs[q.pend[q.k]]
      index == FindIndex(q.qs, question.id)
  IN IF res.threw
     THEN [q EXCEPT !.results = Append(@, [questionId |-> question.id, success |-> FALSE,
                                           error |-> res.message]),
                    !.invoked = Append(@, question.id),
                    !.k = @ + 1]
     ELSE [q EXCEPT !.qs = IF index # 0 THEN [@ EXCEPT ![index] = ApplyDraft(@, res.value)] ELSE @,
                    !.results = Append(@, [questionId |-> question.id, success |-> TRUE, error |-> ""]),
                    !.invoked = Append(@, question.id),
                    !.k = @ + 1]

BulkStep(r) ==
  /\ req[r].pc = "loop"
  /\ \E o \in RouteOutcomes :
       LET question == req[r].qs[req[r].pend[req[r].k]]
           res == generateAnswer(QuestionKw(question.id), {}, FALSE, o)
           q == BulkIteration(req[r], res)
       IN req' = [req EXCEPT ![r] =
            IF q.pc = "loop" /\ q.k > Len(q.pend) THEN [q EXCEPT !.pc = "write"] ELSE q]
  /\ UNCHANGED <<stored, nwrites, call, item>>

\* results.filter(r => r.success).length
RECURSIVE SuccessCount(_)
SuccessCount(results) ==
  IF results = << >> THEN 0
  ELSE (IF Head(results).success THEN 1 ELSE 0) + SuccessCount(Tail(results))

\* ------------------------- PUT /api/v1/proposals/:id/questions/:questionId/answer
\* (the route that reads and writes the table itself)

\* The bodies the route is exercised with: approve or edit with a
\* finalAnswer, a status alone (edited, pending, one outside the lifecycle), a
\* draftAnswer alone, a null finalAnswer alone.
UpdateBodies ==
  { [draftAnswer |-> Undef, finalAnswer |-> Text(<<"h">>), status |-> "approved"],
    [draftAnswer |-> Undef, finalAnswer |-> Text(<<"h">>), status |-> "edited"],
    [draftAnswer |-> Undef, finalAnswer |-> Undef, status |-> "edited"],
    [draftAnswer |-> Undef, finalAnswer |-> Undef, status |-> "pending"],
    [draftAnswer |-> Undef, finalAnswer |-> Undef, status |-> "archived"],
    [draftAnswer |-> Text(<<"h">>), finalAnswer |-> Undef, status |-> NoStatus],
    [draftAnswer |-> Undef, finalAnswer |-> Null, status |-> NoStatus] }

\* The bodies the service route is exercised with; the last two are refused.
ServiceBodies ==
  { [answer |-> Text(<<"h">>), status |-> "approved"],
    [answer |-> Text(<<"h">>), status |-> "edited"],
    [answer |-> Text(<< >>), status |-> "approved"],
    [answer |-> Text(<<"h">>), status |-> NoStatus] }

\* The assignments the route makes to questions[questionIndex].
ApplyUpdate(q, draftAnswer, finalAnswer, status) ==
  [q EXCEPT !.draftAnswer = IF draftAnswer # Undef THEN draftAnswer ELSE @,
            !.finalAnswer = IF finalAnswer # Undef THEN finalAnswer ELSE @,
            !.status = IF status # NoStatus THEN status ELSE @,
            !.updatedBy = UserId]

\* The GetCommand, findIndex (404 when absent) and the assignments.
UpdRead(r) ==
  /\ req[r].pc = "idle"
  /\ \E qid \in QuestionIds, b \in UpdateBodies :
       LET index == FindIndex(stored, qid)
           d == b.draftAnswer
           f == b.finalAnswer
           s == b.status
           q == [NoRequest EXCEPT !.kind = "update", !.qid = qid, !.readAt = nwrites,
                                  !.readQs = stored, !.idx = index]
       IN req' = [req EXCEPT ![r] =
            IF index = 0
            THEN [q EXCEPT !.pc = "respond", !.code = 404, !.qs = stored,
                           !.out = Text(<<"Question not found">>)]
            ELSE [q EXCEPT !.pc = "write",
                           !.qs = [stored EXCEPT ![index] = ApplyUpdate(@, d, f, s)]]]
  /\ UNCHANGED <<stored, nwrites, call, item>>

\* ------------------------- PUT /api/v1/proposals/:id/questions/:questionId/answer
\* (the route that goes through ProposalService)

\* proposal.questions.map(...) of ProposalService.updateQuestionAnswer.
UpdateQuestionAnswer(qs, questionId, answer, status) ==
  [i \in 1..Len(qs) |->
     IF qs[i].id = questionId
     THEN [qs[i] EXCEPT !.finalAnswer = answer, !.status = status]
     ELSE qs[i]]

\* The route (400 unless answer and status are truthy; its own getProposal
\* only decides 404 and 403) and updateQuestionAnswer up to updateProposal:
\* getProposal and the map.
SvcRead(r) ==
  /\ req[r].pc = "idle"
  /\ \E qid \in QuestionIds, b \in ServiceBodies :
       LET q == [NoRequest EXCEPT !.kind = "svcupdate", !.qid = qid]
           a == b.answer
           s == b.status
       IN req' = [req EXCEPT ![r] =
            IF ~Truthy(a) \/ s = NoStatus
            THEN [q EXCEPT !.pc = "respond", !.code = 400,
                           !.out = Text(<<"Answer and status are required">>)]
            ELSE [q EXCEPT !.pc = "write", !.readAt = nwrites, !.readQs = stored,
                           !.idx = FindIndex(stored, qid),
                           !.qs = UpdateQuestionAnswer(stored, qid, a, s)]]
  /\ UNCHANGED <<stored, nwrites, call, item>>

\* ------------------------------------ PATCH and DELETE /api/v1/proposals/:id

\* The questions a PATCH body may carry: none, or a list of the client's
\* making (empty, reordered, one id twice).
NoQuestions == [given |-> FALSE, list |-> << >>]
Questions(qs) == [given |-> TRUE, list |-> qs]

\* The bodies the PATCH routes are exercised with.
PatchBodies ==
  { [title |-> Undef, status |-> NoStatus, questions |-> NoQuestions],
    [title |-> Text(<<"t">>), status |-> NoStatus, questions |-> NoQuestions],
    [title |-> Undef, status |-> "submitted", questions |-> NoQuestions],
    [title |-> Undef, status |-> NoStatus, questions |-> Questions(<< >>)],
    [title |-> Undef, status |-> NoStatus,
     questions |-> Questions(<<NewQuestion(2), NewQuestion(1)>>)],
    [title |-> Text(<<"t">>), status |-> "submitted",
     questions |-> Questions(<<NewQuestion(1), NewQuestion(1)>>)] }

\* PATCH of the route that writes the table itself: the GetCommand, then the
\* updates built from title, clientName, description and status only; 400
\* when the body names none of them.
PatchRead(r) ==
  /\ req[r].pc = "idle"
  /\ \E b \in PatchBodies :
       LET q == [NoRequest EXCEPT !.kind = "patch", !.readAt = nwrites,
                                  !.readQs = stored, !.qs = stored]
       IN req' = [req EXCEPT ![r] =
            IF ~Truthy(b.title) /\ b.status = NoStatus
            THEN [q EXCEPT !.pc = "respond", !.code = 400,
                           !.out = Text(<<"No fields to update">>)]
            ELSE [q EXCEPT !.pc = "patch",
                           !.set = [status |-> b.status, questions |-> NoQuestions]]]
  /\ UNCHANGED <<stored, nwrites, call, item>>

\* PATCH of the route that goes through ProposalService: getProposal, then
\* updateProposal(id, req.body) sets every key of the body but id, userId and
\* createdAt.
SvcPatchRead(r) ==
  /\ req[r].pc = "idle"
  /\ \E b \in PatchBodies :
       req' = [req EXCEPT ![r] =
                 [NoRequest EXCEPT !.kind = "svcpatch", !.pc = "patch",
                                   !.readAt = nwrites, !.readQs = stored, !.qs = stored,
                                   !.set = [status |-> b.status, questions |-> b.questions]]]
  /\ UNCHANGED <<stored, nwrites, call, item>>

\* The UpdateCommand of a PATCH: SET of the attributes collected.
PatchWrite(r) ==
  /\ req[r].pc = "patch"
  /\ LET set == req[r].set IN
       /\ item' = [exists |-> TRUE,
                   status |-> IF set.status # NoStatus THEN set.status ELSE item.status]
       /\ stored' = IF set.questions.given THEN set.questions.list ELSE stored
       /\ nwrites' = IF set.questions.given THEN nwrites + 1 ELSE nwrites
       /\ req' = [req EXCEPT ![r].pc = "respond", ![r].code = 200,
                             ![r].wroteAt = IF set.questions.given THEN nwrites + 1 ELSE 0]
  /\ UNCHANGED call

\* DELETE of the route that writes the table itself, up to its UpdateCommand.
DelRead(r) ==
  /\ req[r].pc = "idle"
  /\ req' = [req EXCEPT ![r] =
               [NoRequest EXCEPT !.kind = "delete", !.pc = "softdelete",
                                 !.readAt = nwrites, !.readQs = stored, !.qs = stored]]
  /\ UNCHANGED <<stored, nwrites, call, item>>

\* Its UpdateCommand: SET #status = 'deleted'.
SoftDelete(r) ==
  /\ req[r].pc = "softdelete"
  /\ item' = [item EXCEPT !.exists = TRUE, !.status = "deleted"]
  /\ req' = [req EXCEPT ![r].pc = "respond", ![r].code = 200]
  /\ UNCHANGED <<stored, nwrites, call>>

\* DELETE of the route that goes through ProposalService, up to
\* deleteProposal.
SvcDelRead(r) ==
  /\ req[r].pc = "idle"
  /\ req' = [req EXCEPT ![r] =
               [NoRequest EXCEPT !.kind = "svcdelete", !.pc = "harddelete",
                                 !.readAt = nwrites, !.readQs = stored, !.qs = stored]]
  /\ UNCHANGED <<stored, nwrites, call, item>>

\* ProposalService.deleteProposal: the DeleteCommand removes the item and
\* with it the questions attribute.
HardDelete(r) ==
  /\ req[r].pc = "harddelete"
  /\ item' = NoItem
  /\ stored' = << >>
  /\ req' = [req EXCEPT ![r].pc = "respond", ![r].code = 200]
  /\ UNCHANGED <<nwrites, call>>

\* The kinds of request whose handler answers 404 when the GetCommand finds
\* no item.
Kinds == {"generate", "bulk", "update", "svcupdate", "patch", "svcpatch", "delete", "svcdelete"}

\* Any of the handlers when the Proposal is not in the table: 404.
NotFound(r) ==
  /\ req[r].pc = "idle"
  /\ ~item.exists
  /\ \E kind \in Kinds, qid \in QuestionIds :
       req' = [req EXCEPT ![r] =
                 [NoRequest EXCEPT !.kind = kind, !.pc = "respond", !.code = 404,
                                   !.qid = qid, !.readAt = nwrites,
                                   !.out = Text(<<"Proposal not found">>)]]
  /\ UNCHANGED <<stored, nwrites, call, item>>

\* ------------------------------------------------------------ specifications

Step(r) ==
  \/ GenRead(r)
  \/ GenGenerate(r)
  \/ BulkRead(r)
  \/ BulkStep(r)
  \/ UpdRead(r)
  \/ SvcRead(r)
  \/ Write(r)
  \/ Respond(r)

\* The requests are numbered in the order in which their handlers start.
InOrder(r) == req[r].pc = "idle" => \A p \in 1..(r - 1) : req[p].pc # "idle"

Next == \E r \in Req : InOrder(r) /\ Step(r)

Spec == Init /\ [][Next]_vars

\* No request in flight: every handler has sent its response or not started.
Quiet == \A r \in Req : req[r].pc \in {"idle", "done"}

\* The same requests served one at a time.
NextSeq == \E r \in Req : InOrder(r) /\ Step(r) /\ (req[r].pc = "idle" => Quiet)

SpecSeq == Init /\ [][NextSeq]_vars

\* The requests on the Proposal's own attributes.
AdminStep(r) ==
  \/ PatchRead(r)
  \/ SvcPatchRead(r)
  \/ PatchWrite(r)
  \/ DelRead(r)
  \/ SoftDelete(r)
  \/ SvcDelRead(r)
  \/ HardDelete(r)

\* Every request of the proposals and ai routes, served one at a time.
NextAdmin ==
  \E r \in Req :
    /\ InOrder(r)
    /\ req[r].pc = "idle" => Quiet
    /\ \/ (item.exists \/ req[r].pc # "idle") /\ (Step(r) \/ AdminStep(r))
       \/ NotFound(r)

SpecAdmin == Init /\ [][NextAdmin]_vars

\* ------------------------------------------- generateAnswer called directly

\* The contexts a caller passes: '' or a text holding some keywords.
ContextArgs ==
  { [hasContext |-> FALSE, contextKw |-> {}] }
    \cup [hasContext : {TRUE}, contextKw : { {}, {"security"}, {"cost"} }]

\* The keywords a caller of improveAnswer puts in each of its three texts.
ImproveArgs ==
  [currentKw : { {}, {"security"} }, feedbackKw : { {}, {"timeline"} },
   questionKw : { {}, {"cost"}, {"experience", "price"} }]

\* No state outside the call under study.
NoProposal ==
  /\ stored = << >>
  /\ nwrites = 0
  /\ req = [r \in Req |-> NoRequest]
  /\ item = NoItem

InitGen ==
  /\ NoProposal
  /\ \/ \E kw \in SUBSET Keywords, c \in ContextArgs, o \in Outcomes :
          call = [fn |-> "generateAnswer", questionKw |-> kw, contextKw |-> c.contextKw,
                  hasContext |-> c.hasContext, o |-> o, done |-> FALSE,
                  result |-> Returned(Undef)]
     \/ \E a \in ImproveArgs, o \in Outcomes :
          call = [fn |-> "improveAnswer", currentKw |-> a.currentKw,
                  feedbackKw |-> a.feedbackKw, questionKw |-> a.questionKw, o |-> o,
                  done |-> FALSE, result |-> Returned(Undef)]

CallGenerateAnswer ==
  /\ call.fn = "generateAnswer"
  /\ ~call.done
  /\ call' = [call EXCEPT !.done = TRUE,
                !.result = generateAnswer(call.questionKw, call.contextKw,
                                          call.hasContext, call.o)]
  /\ UNCHANGED <<stored, nwrites, req, item>>

CallImproveAnswer ==
  /\ call.fn = "improveAnswer"
  /\ ~call.done
  /\ call' = [call EXCEPT !.done = TRUE,
                !.result = improveAnswer(call.currentKw, call.feedbackKw,
                                         call.questionKw, call.o)]
  /\ UNCHANGED <<stored, nwrites, req, item>>

NextGen == CallGenerateAnswer \/ CallImproveAnswer

SpecGen == InitGen /\ [][NextGen]_vars

\* ------------------------------------------- the knowledge search called directly

\* Knowledge entries: one matching by title and content, one without title
\* and with a tag, one without content, one that only a tag can match.
KnowledgeDocs ==
  { [title |-> Text(<<"a">>), content |-> Text(<<"b", " ", "a">>), tags |-> << >>],
    [title |-> Undef, content |-> Text(<<"a", "b">>), tags |-> << <<"A">> >>],
    [title |-> Text(<<"B">>), content |-> Undef, tags |-> << >>],
    [title |-> Text(<< >>), content |-> Text(<< >>), tags |-> << <<"b">> >>] }

Pools == UNION { [1..n -> KnowledgeDocs] : n \in 0..MaxPool }

\* Queries: empty, one word, upper case, two words, a repeated word, leading
\* and trailing whitespace, a word in no entry, a word across two characters,
\* whitespace only.
Queries ==
  { << >>, <<"a">>, <<"B">>, <<"a", " ", "B">>, <<"a", " ", "a">>, <<" ", "a">>,
    <<"b", " ">>, <<"c">>, <<"a", "b">>, <<" ">>, <<" ", "c">> }

\* The topK or limit the caller passes; 0 when it passes none.
Limits == 0..MaxLimit

InitSearch ==
  /\ NoProposal
  /\ \E fn \in {"searchKnowledgeBase", "searchRoute"}, q \in Queries, kb \in Pools,
        topK \in Limits :
       call = [fn |-> fn, query |-> q, pool |-> kb, topK |-> topK, done |-> FALSE,
               result |-> Returned(<< >>)]

\* searchKnowledgeBase takes no topK: a third argument is ignored.
CallSearchKnowledgeBase ==
  /\ call.fn = "searchKnowledgeBase"
  /\ ~call.done
  /\ call' = [call EXCEPT !.done = TRUE,
                           !.result = searchKnowledgeBase(call.query, call.pool)]
  /\ UNCHANGED <<stored, nwrites, req, item>>

CallSearchRoute ==
  /\ call.fn = "searchRoute"
  /\ ~call.done
  /\ call' = [call EXCEPT !.done = TRUE,
                           !.result = searchRoute(call.query, call.pool, call.topK)]
  /\ UNCHANGED <<stored, nwrites, req, item>>

NextSearch == CallSearchKnowledgeBase \/ CallSearchRoute

SpecSearch == InitSearch /\ [][NextSearch]_vars

\* ------------------------------------------- the document service called directly

\* Most words in a text given to categorizQuestion.
MaxWords == 2

\* The words of the texts: every keyword, keywords in other cases, a word
\* that holds a keyword inside (translate holds sla), words that hold none.
Vocabulary ==
  PricingWords \cup TechnicalWords \cup TimelineWords \cup ExperienceWords
    \cup SecurityWords \cup SupportWords
    \cup { <<"C", "o", "s", "t">>, <<"S", "E", "C", "U", "R", "I", "T", "Y">>, <<"t", "r", "a", "n", "s", "l", "a", "t", "e">>, <<"w", "h", "a", "t">>, <<"P", "r", "i", "v", "a", "c", "y", "?">> }

\* The words joined by single spaces.
RECURSIVE JoinWords(_)
JoinWords(words) ==
  IF words = << >> THEN << >>
  ELSE IF Len(words) = 1 THEN words[1]
  ELSE words[1] \o <<" ">> \o JoinWords(Tail(words))

ClassifyTexts ==
  { JoinWords(ws) : ws \in UNION { [1..n -> Vocabulary] : n \in 0..MaxWords } }

\* Most lines in a text given to extractQuestionsFromText.
MaxLines == 2

\* c repeated n times.
Repeat(c, n) == [i \in 1..n |-> c]

\* The lines of the texts: numbered, lettered and bulleted candidates whose
\* cleaned text is 4, 10, 500 and 501 characters long, stacked marks, a mark
\* without whitespace behind it, questions with nothing in front, headers of
\* 4 and 5 characters, an all-caps line of 50, a statement, an empty line.
Lines ==
  { <<"1", ".", " ", "w", "h", "a", "t", " ", "c", "o", "s", "t", "?">>,
    <<"2", ")", " ", "w", "h", "y", "?">>,
    <<"-", " ">> \o Repeat("x", 499) \o <<"?">>,
    <<"a", ".", " ">> \o Repeat("x", 500) \o <<"?">>,
    <<"1", ".", " ", "a", ")", " ", "-", " ", "s", "e", "c", "u", "r", "i", "t", "y", " ", "x">>,
    <<"3", ".", "5", " ", "g", "h", "z", " ", "o", "k", "a", "y", "?">>,
    Repeat("X", 49) \o <<"?">>,
    <<"S", "C", "O", "P", "E">>,
    <<" ", " ">> \o <<"w", "h", "a", "t", " ", "i", "s", " ", "t", "h", "e", " ", "s", "l", "a", "?">> \o <<"\r">>,
    <<"A", "B", "C", "?">>,
    <<"p", "l", "a", "i", "n", " ", "s", "t", "a", "t", "e", "m", "e", "n", "t">>,
    << >> }

\* The lines joined by newlines.
RECURSIVE JoinLines(_)
JoinLines(lines) ==
  IF lines = << >> THEN << >>
  ELSE IF Len(lines) = 1 THEN lines[1]
  ELSE lines[1] \o <<"\n">> \o JoinLines(Tail(lines))

SegmentTexts ==
  { JoinLines(ls) : ls \in UNION { [1..n -> Lines] : n \in 0..MaxLines } }

InitSeg ==
  /\ NoProposal
  /\ \/ \E t \in ClassifyTexts :
          call = [fn |-> "categorizQuestion", text |-> t, done |-> FALSE, result |-> ""]
     \/ \E t \in SegmentTexts :
          call = [fn |-> "extractQuestionsFromText", text |-> t, done |-> FALSE,
                  result |-> << >>]

CallCategorizQuestion ==
  /\ call.fn = "categorizQuestion"
  /\ ~call.done
  /\ call' = [call EXCEPT !.done = TRUE, !.result = categorizQuestion(call.text)]
  /\ UNCHANGED <<stored, nwrites, req, item>>

CallExtractQuestionsFromText ==
  /\ call.fn = "extractQuestionsFromText"
  /\ ~call.done
  /\ call' = [call EXCEPT !.done = TRUE, !.result = extractQuestionsFromText(call.text)]
  /\ UNCHANGED <<stored, nwrites, req, item>>

NextSeg == CallCategorizQuestion \/ CallExtractQuestionsFromText

SpecSeg == InitSeg /\ [][NextSeg]_vars

\* ------------------------------------------------------ cleanText called directly

\* Longest text given to cleanText.
MaxText == 5

\* Every text of up to MaxText characters over one letter and the whitespace
\* characters.
RawTexts == UNION { [1..n -> {"x"} \cup Whitespace] : n \in 0..MaxText }

InitClean ==
  /\ NoProposal
  /\ \E fn \in {"cleanText", "DocumentProcessorService.cleanText"}, t \in RawTexts :
       call = [fn |-> fn, text |-> t, times |-> 0, once |-> << >>, twice |-> << >>]

\* The function of the call, applied to a text.
Clean(fn, t) ==
  IF fn = "cleanText" THEN cleanText(t) ELSE DocumentProcessorService_cleanText(t)

\* The text is cleaned.
CallCleanText ==
  /\ call.fn \in {"cleanText", "DocumentProcessorService.cleanText"}
  /\ call.times = 0
  /\ call' = [call EXCEPT !.times = 1, !.once = Clean(call.fn, call.text)]
  /\ UNCHANGED <<stored, nwrites, req, item>>

\* The cleaned text is cleaned again.
CallCleanTextAgain ==
  /\ call.fn \in {"cleanText", "DocumentProcessorService.cleanText"}
  /\ call.times = 1
  /\ call' = [call EXCEPT !.times = 2, !.twice = Clean(call.fn, call.once)]
  /\ UNCHANGED <<stored, nwrites, req, item>>

NextClean == CallCleanText \/ CallCleanTextAgain

SpecClean == InitClean /\ [][NextClean]_vars

\* ------------------------------------------------- text extraction called directly

\* Longest buffer given to the extraction.
MaxBytes == 3

\* Bytes of a buffer: a letter, a newline, a space and a byte that is not
\* valid UTF-8.
Bytes == {97, 10, 32, 255}

Buffers == UNION { [1..n -> Bytes] : n \in 0..MaxBytes }

\* Media types of an upload: the four document types and an image.
MediaTypes == {PDF, DOCX, DOC, PLAIN, "image/png"}

\* How the parser library ends on a buffer: it throws, or returns a text.
ParserOutcomes == {Thrown("bad XRef entry"), Returned(Text(<<"p">>))}

Extractors == {"extractTextFromFile", "processDocument"}

InitExtract ==
  /\ NoProposal
  /\ \E fn \in Extractors, b \in Buffers, m \in MediaTypes, p \in ParserOutcomes :
       call = [fn |-> fn, buffer |-> b, mimeType |-> m, parsed |-> p,
               done |-> FALSE, result |-> Returned(Undef)]

\* extractTextFromFile is called (routes/upload.routes.js).
CallExtractTextFromFile ==
  /\ call.fn = "extractTextFromFile"
  /\ ~call.done
  /\ call' = [call EXCEPT !.done = TRUE,
                !.result = extractTextFromFile(call.buffer, call.mimeType, call.parsed)]
  /\ UNCHANGED <<stored, nwrites, req, item>>

\* documentProcessor.processDocument is called (routes/admin.routes.js).
CallProcessDocument ==
  /\ call.fn = "processDocument"
  /\ ~call.done
  /\ call' = [call EXCEPT !.done = TRUE,
                !.result = processDocument(call.buffer, call.mimeType, call.parsed)]
  /\ UNCHANGED <<stored, nwrites, req, item>>

NextExtract == CallExtractTextFromFile \/ CallProcessDocument

SpecExtract == InitExtract /\ [][NextExtract]_vars

\* ------------------------------------------------------------- the bulk uploads

\* Most files in one bulk upload.
MaxFiles == 3

Ok == Returned(Undef)

\* The files a batch is made of, each with how the services end on it: the
\* S3 upload, the parser, the index and the storage counter.
UploadFiles ==
  { [filename |-> "a.pdf", mimetype |-> PDF, buffer |-> <<97>>, s3 |-> Ok,
     parsed |-> Returned(Text(<<"p", "\f", "p">>)), index |-> Ok, storage |-> Ok],
    [filename |-> "b.pdf", mimetype |-> PDF, buffer |-> <<97>>,
     s3 |-> Thrown("AccessDenied"),
     parsed |-> Returned(Text(<<"p">>)), index |-> Ok, storage |-> Ok],
    [filename |-> "c.pdf", mimetype |-> PDF, buffer |-> <<255>>, s3 |-> Ok,
     parsed |-> Thrown("bad XRef entry"), index |-> Ok, storage |-> Ok],
    [filename |-> "d.txt", mimetype |-> PLAIN, buffer |-> <<97>>, s3 |-> Ok,
     parsed |-> Returned(Text(<<"p">>)), index |-> Ok, storage |-> Ok],
    [filename |-> "e.docx", mimetype |-> DOCX, buffer |-> <<97>>, s3 |-> Ok,
     parsed |-> Returned(Text(<<"p">>)), index |-> Thrown("index failed"), storage |-> Ok],
    [filename |-> "f.docx", mimetype |-> DOCX, buffer |-> <<97>>, s3 |-> Ok,
     parsed |-> Returned(Text(<<"p">>)), index |-> Ok,
     storage |-> Thrown("Company not found")] }

Batches == UNION { [1..n -> UploadFiles] : n \in 0..MaxFiles }

BulkUploads == {"knowledge/bulk-upload", "rfp/bulk-upload"}

NoResponse == [code |-> 0, successful |-> 0, failed |-> 0]

InitUpload ==
  /\ NoProposal
  /\ \E fn \in BulkUploads, files \in Batches :
       call = [fn |-> fn, files |-> files, k |-> 0, successful |-> << >>,
               failed |-> << >>, indexed |-> << >>, response |-> NoResponse]

\* The first await of the try block of POST /knowledge/bulk-upload that
\* throws decides the message; none throws when a document was indexed and
\* counted.
KnowledgeFailure(file) ==
  LET content == processDocument(file.buffer, file.mimetype, file.parsed) IN
  IF file.s3.threw THEN file.s3
  ELSE IF content.threw THEN content
  ELSE IF file.index.threw THEN file.index
  ELSE IF file.storage.threw THEN file.storage
  ELSE Ok

\* The try block of POST /rfp/bulk-upload awaits the PutObjectCommand only.
RfpFailure(file) == file.s3

UploadIterationAbort(c, failure) ==
  LET file == c.files[c.k] IN
  IF failure.threw
  THEN [c EXCEPT !.failed = Append(@, [filename |-> file.filename,
                                       error |-> failure.message, pos |-> c.k]),
                 !.k = Len(c.files) + 1]
  ELSE [c EXCEPT !.successful = Append(@, [filename |-> file.filename, key |-> c.k,
                                           pos |-> c.k]),
                 !.k = @ + 1]

\* One iteration of the for loop over the files: the try block and its
\* catch.  pos is history: the position of the file in the batch; the key
\* holds a fresh uuid, here that position.
UploadIteration(c, failure) ==
  LET file == c.files[c.k] IN
  IF failure.threw
  THEN [c EXCEPT !.failed = Append(@, [filename |-> file.filename,
                                       error |-> failure.message, pos |-> c.k]),
                 !.k = @ + 1]
  ELSE [c EXCEPT !.successful = Append(@, [filename |-> file.filename, key |-> c.k,
                                           pos |-> c.k]),
                 !.k = @ + 1]

\* The handler up to its loop: 400 when no file was uploaded.
UploadStart ==
  /\ call.fn \in BulkUploads
  /\ call.k = 0 /\ call.response.code = 0
  /\ call' = IF Len(call.files) = 0
             THEN [call EXCEPT !.response = [NoResponse EXCEPT !.code = 400]]
             ELSE [call EXCEPT !.k = 1]
  /\ UNCHANGED <<stored, nwrites, req, item>>

\* One file of POST /knowledge/bulk-upload; the document is indexed when
\* indexDocument returned, with the cleaned content.
KnowledgeUploadStep ==
  /\ call.fn = "knowledge/bulk-upload"
  /\ call.k \in 1..Len(call.files)
  /\ LET file == call.files[call.k]
         content == processDocument(file.buffer, file.mimetype, file.parsed)
         c == UploadIteration(call, KnowledgeFailure(file))
     IN call' = IF ~file.s3.threw /\ ~content.threw /\ ~file.index.threw
                THEN [c EXCEPT !.indexed = Append(@,
                        [title |-> file.filename,
                         content |-> DocumentProcessorService_cleanText(content.value.chars)])]
                ELSE c
  /\ UNCHANGED <<stored, nwrites, req, item>>

\* One file of POST /rfp/bulk-upload.
RfpUploadStep ==
  /\ call.fn = "rfp/bulk-upload"
  /\ call.k \in 1..Len(call.files)
  /\ call' = UploadIteration(call, RfpFailure(call.files[call.k]))
  /\ UNCHANGED <<stored, nwrites, req, item>>

\* res.json after the loop: the two counts.
UploadRespond ==
  /\ call.fn \in BulkUploads
  /\ call.k > Len(call.files) /\ call.response.code = 0
  /\ call' = [call EXCEPT !.response = [code |-> 200,
                                        successful |-> Len(call.successful),
                                        failed |-> Len(call.failed)]]
  /\ UNCHANGED <<stored, nwrites, req, item>>

NextUpload == UploadStart \/ KnowledgeUploadStep \/ RfpUploadStep \/ UploadRespond

SpecUpload == InitUpload /\ [][NextUpload]_vars

\* ------------------------------------------------------------------ claims

Generators == {"generate", "bulk"}
HumanUpdates == {"update", "svcupdate"}

\* The finalAnswer of every question of a list, in order.
Finals(qs) == [i \in 1..Len(qs) |-> qs[i].finalAnswer]

\* Request r performs its UpdateCommand in this step.
Writes(r) == req[r].pc = "write" /\ req'[r].pc = "respond"

\* C1: served one at a time, every step of a generate-answer or bulk-generate
\* request leaves the stored finalAnswer of every question as it was: the
\* stored finalAnswers change only in the write of an answer-update request.
C1_FinalAnswerOnlyByHuman ==
  [][\A r \in Req :
       req'[r] # req[r] =>
         \/ Finals(stored') = Finals(stored)
         \/ req[r].kind \in HumanUpdates /\ Writes(r)]_vars

\* C1 witness: a generator has just written a question list in which its target
\* question carries a human finalAnswer, and the finalAnswer is still stored.
C1_Witness ==
  \E r \in Req :
    /\ req[r].kind = "generate" /\ req[r].pc = "respond"
    /\ req[r].wroteAt = nwrites /\ req[r].idx # 0
    /\ stored[req[r].idx].finalAnswer = Text(<<"h">>)
    /\ stored[req[r].idx].status = "draft"
    /\ req[r].readQs[req[r].idx].status = "approved"

\* C2 (as stated): the write of a generator never replaces a stored non-null
\* finalAnswer, whatever was written since the generator read the Proposal.
C2_NeverOverwritesFinal ==
  [][\A r \in Req :
       (req[r].kind \in Generators /\ Writes(r)) =>
         \A i \in 1..Len(stored) :
           stored[i].finalAnswer # Null => stored'[i].finalAnswer = stored[i].finalAnswer]_vars

\* C2 (amended): a generator never changes a finalAnswer in the question list
\* it read, and its write stores that list: right after the write every stored
\* finalAnswer is the value the generator read, so a finalAnswer persisted by a
\* human between the generator's read and its write is replaced by the older
\* value (last writer wins), and nothing else is.
C2_GeneratorWritesFinalsItRead ==
  \A r \in Req :
    (req[r].kind \in Generators /\ req[r].pc # "done") =>
      /\ Finals(req[r].qs) = Finals(req[r].readQs)
      /\ (req[r].pc = "respond" /\ req[r].wroteAt = nwrites /\ nwrites > 0) =>
           Finals(stored) = Finals(req[r].readQs)

\* C2 witness: a service answer-update (it always stores a non-empty
\* finalAnswer) wrote between a generator's read and the generator's write,
\* and the stored finalAnswer of its question is null again.
C2_Witness ==
  \E g, h \in Req :
    /\ req[g].kind \in Generators /\ req[g].pc = "respond"
    /\ req[h].kind = "svcupdate" /\ req[h].pc = "respond" /\ req[h].idx # 0
    /\ req[g].readAt < req[h].wroteAt /\ req[h].wroteAt < req[g].wroteAt
    /\ req[g].wroteAt = nwrites
    /\ stored[req[h].idx].finalAnswer = Null

\* Two generate-answer requests that both read the Proposal before either
\* wrote it (they read the same number of writes), both wrote, first then
\* second, with nothing written since; both are about to respond 200.
LostUpdateRace(first, second) ==
  /\ first # second
  /\ req[first].kind = "generate" /\ req[second].kind = "generate"
  /\ req[first].pc = "respond" /\ req[second].pc = "respond"
  /\ req[first].code = 200 /\ req[second].code = 200
  /\ req[first].readAt = req[second].readAt
  /\ 0 < req[first].wroteAt /\ req[first].wroteAt < req[second].wroteAt
  /\ req[second].wroteAt = nwrites
  /\ req[first].idx # req[second].idx

\* C3: the write is unconditional and replaces the whole list: after two
\* generate-answer requests on different questions raced, the first writer's
\* question is stored as the second writer read it, before the first's write.
C3_LastWriterWins ==
  \A first, second \in Req :
    LostUpdateRace(first, second) =>
      stored[req[first].idx] = req[second].readQs[req[first].idx]

\* C3 witness: both requests completed with status 200 and the first writer's
\* question is stored pending, with no draft.
C3_Witness ==
  \E first, second \in Req :
    /\ LostUpdateRace(first, second)
    /\ stored[req[first].idx].status = "pending"
    /\ stored[req[first].idx].draftAnswer = Null
    /\ stored[req[second].idx].status = "draft"

\* C4 (as stated): a generator's write changes the status of a question only
\* from pending to draft, also with the requests served one at a time.
C4_GenerationOnlyFromPending ==
  [][\A r \in Req :
       (req[r].kind \in Generators /\ Writes(r)) =>
         \A i \in 1..Len(stored) :
           stored'[i].status # stored[i].status =>
             stored[i].status = "pending" /\ stored'[i].status = "draft"]_vars

\* C5 (as stated): no step takes a question whose status is not pending to
\* status pending, with the requests served one at a time.
C5_NeverBackToPending ==
  [][\A i \in 1..Len(stored) :
       stored[i].status # "pending" => stored'[i].status # "pending"]_vars

\* C6 (as stated): a stored question with status edited has a finalAnswer that
\* is not null and differs from its draftAnswer.
C6_EditedHasDifferentFinal ==
  \A i \in 1..Len(stored) :
    stored[i].status = "edited" =>
      stored[i].finalAnswer # Null /\ stored[i].finalAnswer # stored[i].draftAnswer

\* The positions j of a bulk request's pending list whose result says success.
Succeeded(q) == {j \in 1..Len(q.results) : q.results[j].success}

\* A bulk request that found pending questions and is about to respond.
BulkResponding(r) ==
  req[r].kind = "bulk" /\ req[r].pc = "respond" /\ Len(req[r].pend) > 0

C9_BulkAlwaysTally ==
  \A r \in Req :
    (req[r].kind = "bulk" /\ req[r].pc = "respond") =>
      req[r].code = 200 /\ Len(req[r].results) = Len(req[r].pend)

\* C9 (amended): a bulk request that finds at least one pending question always
\* completes with the tally: in its loop the next iteration is always possible
\* and the results grow by one per iteration, and it responds 200 after writing,
\* with one result per pending question and a message on every failure; one
\* that finds no pending question is refused with 400, writes nothing and
\* reports no tally.
C9_BulkTallyWhenPending ==
  \A r \in Req :
    LET q == req[r] IN
    /\ (q.kind = "bulk" /\ q.pc = "loop") =>
         /\ q.k \in 1..Len(q.pend) /\ Len(q.results) = q.k - 1
         /\ ENABLED BulkStep(r)
    /\ (q.kind = "bulk" /\ q.pc = "write") =>
         /\ Len(q.results) = Len(q.pend) /\ ENABLED Write(r)
    /\ (q.kind = "bulk" /\ q.pc = "respond") =>
         /\ ENABLED Respond(r)
         /\ IF Len(q.pend) > 0
            THEN /\ q.code = 200 /\ q.wroteAt > 0
                 /\ Len(q.results) = Len(q.pend)
                 /\ \A j \in 1..Len(q.results) :
                      ~q.results[j].success => q.results[j].error # ""
            ELSE /\ q.code = 400 /\ q.wroteAt = 0 /\ q.results = << >>
                 /\ q.out = Text(<<"No pending questions found">>)

\* C9 witness: a bulk request is refused with 400 on a Proposal whose
\* questions were all drafted by an earlier request, none of them pending.
C9_Witness ==
  \E r \in Req :
    /\ req[r].kind = "bulk" /\ req[r].pc = "respond" /\ req[r].code = 400
    /\ Len(stored) = NumQ
    /\ \A i \in 1..Len(stored) : stored[i].status = "draft"

\* C10: generateAnswer returns a non-empty answer, without throwing, when the
\* model invocation fails with name ResourceNotFoundException or code
\* ENOTFOUND, and throws, returning nothing, on every other failure.
C10_FallbackOnlyWhenNotFound ==
  (call.fn = "generateAnswer" /\ call.done) =>
    LET o == call.o
        notFound == o.name = "ResourceNotFoundException" \/ o.code = "ENOTFOUND"
    IN /\ (o.kind = "error" /\ notFound) =>
            /\ ~call.result.threw
            /\ call.result.value.answer.type = "string"
            /\ Len(call.result.value.answer.chars) > 0
       /\ ((o.kind = "error" /\ ~notFound) \/ o.kind = "malformed") =>
            /\ call.result.threw
            /\ call.result.value = Undef
            /\ call.result.message = FailedMessage

\* C10 witness: a failure with code ENOTFOUND and another name was answered by
\* the fallback text for a question about cost.
C10_Witness ==
  /\ call.fn = "generateAnswer" /\ call.done
  /\ call.o.kind = "error" /\ call.o.code = "ENOTFOUND" /\ call.o.name = "Error"
  /\ call.questionKw = {"cost"} /\ ~call.hasContext
  /\ ~call.result.threw
  /\ call.result.value.answer = Text(<<"Our pricing is competitive and transparent">>)

\* C11: improveAnswer has no fallback: whenever the model invocation fails, also
\* with a service/model-not-found error, it throws and returns no text.
C11_ImproveNeverFallsBack ==
  (call.fn = "improveAnswer" /\ call.done /\ call.o.kind \in {"error", "malformed"}) =>
    /\ call.result.threw
    /\ call.result.value = Undef

\* The elements of an array.
Elements(seq) == {seq[i] : i \in 1..Len(seq)}

\* C12: every generateAnswer call that returns has confidence 0.85 and sources
\* containing "Knowledge Base" when the context is non-empty, sources exactly
\* ["AI Generated"] when it is empty, and a confidence within 0.0-1.0 in both.
C12_ConfidenceAndSources ==
  (call.fn = "generateAnswer" /\ call.done /\ ~call.result.threw) =>
    LET g == call.result.value IN
    /\ call.hasContext =>
         g.confidence = Number(85) /\ "Knowledge Base" \in Elements(g.sources)
    /\ ~call.hasContext => g.sources = <<"AI Generated">>
    /\ g.confidence.type = "number" /\ g.confidence.n \in 0..100

\* C12 witness: a call with a non-empty context returned the model's text with
\* the Knowledge Base marker.
C12_Witness ==
  /\ call.fn = "generateAnswer" /\ call.done /\ ~call.result.threw
  /\ call.hasContext /\ call.o.kind = "ok"
  /\ call.result.value.sources = <<"Knowledge Base">>
  /\ call.result.value.confidence = Number(CONFIDENCE)

\* A finished search call that returned.
Searched(fn) == call.fn = fn /\ call.done /\ ~call.result.threw

\* The score the called search gives the entry at position i of the pool.
EntryScore(i) ==
  LET words == SplitOnWhitespace(ToLowerCase(call.query)) IN
  IF call.fn = "searchRoute" THEN RelevanceScore(call.pool[i], words)
  ELSE DocScore(call.pool[i], words)

\* The topK in force: the one the caller passed, 5 when it passed none.
TopKInForce == IF call.topK = 0 THEN 5 ELSE call.topK

\* At most topK entries, and exactly topK when that many score above zero.
TruncatedToTopK ==
  /\ Len(call.result.value) <= TopKInForce
  /\ Cardinality({i \in 1..Len(call.pool) : EntryScore(i) > 0}) >= TopKInForce
       => Len(call.result.value) = TopKInForce

\* C14: the retriever returns at most topK entries for every positive topK the
\* caller passes, at most 5 when it passes none, and exactly topK when at
\* least topK entries score above zero.
C14_AtMostTopK ==
  (Searched("searchKnowledgeBase") \/ Searched("searchRoute")) => TruncatedToTopK

\* 2 for every query token (an occurrence in the lower-cased query, split on
\* whitespace) that is a substring of the content of the entry at position i,
\* 5 for every one that is a substring of its title.
ClaimedScore(i) ==
  LET words == SplitOnWhitespace(ToLowerCase(call.query))
      content == ToLowerCase(OrEmpty(call.pool[i].content))
      title == ToLowerCase(OrEmpty(call.pool[i].title))
  IN 2 * Cardinality({j \in 1..Len(words) : Includes(content, words[j])})
     + 5 * Cardinality({j \in 1..Len(words) : Includes(title, words[j])})

\* The returned entries all have a claimed score above zero, are in descending
\* order of it, and keep their pool order where it is equal.
RankedByClaimedScore ==
  LET res == call.result.value IN
  /\ \A k \in 1..Len(res) : ClaimedScore(res[k].pos) > 0
  /\ \A k, l \in 1..Len(res) :
       k < l => /\ ClaimedScore(res[k].pos) >= ClaimedScore(res[l].pos)
                /\ ClaimedScore(res[k].pos) = ClaimedScore(res[l].pos)
                     => res[k].pos < res[l].pos

\* C15: each entry's score is 2 times the number of query tokens in its content
\* plus 5 times the number in its title and nothing else; entries with score 0
\* are never returned; returned entries are in descending score order and
\* entries with equal scores keep their pool order.
C15_ScoreAndOrder ==
  /\ Searched("searchKnowledgeBase") => RankedByClaimedScore
  /\ Searched("searchRoute") =>
       /\ RankedByClaimedScore
       /\ \A k \in 1..Len(call.result.value) :
            call.result.value[k].relevanceScore = ClaimedScore(call.result.value[k].pos)

\* The knowledge entries of the company (TABLES.KNOWLEDGE) while the requests
\* are served, and the characters of the text of question q<i>: the entry
\* scores above zero for q1 and q3 and zero for q2.
CompanyPool == << [title |-> Text(<<"a">>), content |-> Text(<<"b", " ", "a">>), tags |-> << >>] >>

QuestionText(i) == IF i % 3 = 2 THEN <<"c">> ELSE <<"a", " ", "c">>

PoolMatches(i) == Len(relevantDocs(QuestionText(i), CompanyPool)) > 0

\* C13: a question drafted by generate-answer or bulk-generate while the pool
\* holds an entry with a non-zero score for it records sources containing
\* "Knowledge Base" (served one at a time, only a generator stores 'draft').
C13_DraftUsesKnowledgeBase ==
  \A i \in 1..Len(stored) :
    (stored[i].status = "draft" /\ PoolMatches(stored[i].id))
      => "Knowledge Base" \in Elements(stored[i].sources)

\* The categories in the order of the claim, and the keywords of each.
CategoryOrder == <<"pricing", "technical", "timeline", "experience", "security", "support">>

WordsOf(category) ==
  CASE category = "pricing" -> PricingWords
    [] category = "technical" -> TechnicalWords
    [] category = "timeline" -> TimelineWords
    [] category = "experience" -> ExperienceWords
    [] category = "security" -> SecurityWords
    [] category = "support" -> SupportWords

\* A keyword of the k-th category occurs in the text, whatever its case.
Occurs(k, text) == \E w \in WordsOf(CategoryOrder[k]) : Includes(ToLowerCase(text), w)

\* C19: classify returns the category of the first keyword set, in the order
\* pricing, technical, timeline, experience, security, support, with a keyword
\* occurring case-insensitively in the text, and general when none does; a
\* text with both "cost" and "security" is pricing; the result is always one
\* of the seven categories.
C19_FirstMatchWins ==
  (call.fn = "categorizQuestion" /\ call.done) =>
    /\ \A k \in 1..Len(CategoryOrder) :
         (Occurs(k, call.text) /\ \A j \in 1..(k - 1) : ~Occurs(j, call.text))
           => call.result = CategoryOrder[k]
    /\ (\A k \in 1..Len(CategoryOrder) : ~Occurs(k, call.text)) => call.result = "general"
    /\ (Includes(call.text, <<"c", "o", "s", "t">>) /\ Includes(call.text, <<"s", "e", "c", "u", "r", "i", "t", "y">>))
         => call.result = "pricing"
    /\ call.result \in Elements(CategoryOrder) \cup {"general"}

\* C19 witness: a text holding SECURITY in upper case before cost was
\* classified as pricing.
C19_Witness ==
  /\ call.fn = "categorizQuestion" /\ call.done
  /\ call.text = <<"S", "E", "C", "U", "R", "I", "T", "Y">> \o <<" ">> \o <<"c", "o", "s", "t">>
  /\ call.result = "pricing"

\* A finished call of extractQuestionsFromText.
Segmented == call.fn = "extractQuestionsFromText" /\ call.done

\* C16: every Question returned by segment(text) has a question text of 10 to
\* 500 characters inclusive, and the ordinals of the identifiers q<n> are
\* strictly increasing along the returned list.
C16_LengthAndIncreasingIds ==
  Segmented =>
    /\ \A k \in 1..Len(call.result) :
         Len(call.result[k].question) >= 10 /\ Len(call.result[k].question) <= 500
    /\ \A k, l \in 1..Len(call.result) : k < l => call.result[k].id < call.result[l].id

\* C16 witness: a text gave a question of exactly 500 characters and then one
\* of exactly 10.
C16_Witness ==
  /\ Segmented
  /\ Len(call.result) = 2
  /\ Len(call.result[1].question) = 500
  /\ Len(call.result[2].question) = 10

\* C17: the k-th Question returned by segment(text) has the identifier q<k>,
\* also when candidate lines were discarded for their length.
C17_IdIsPosition ==
  Segmented => \A k \in 1..Len(call.result) : call.result[k].id = k

\* A numeric enumerator, an alphabetic enumerator and a bullet, each with the
\* whitespace behind it.
AllSpaceFrom(p, i) == \A m \in i..Len(p) : IsSpace(p[m])
IsNumericMark(p) ==
  \E n \in 1..(Len(p) - 1) :
    /\ \A d \in 1..n : IsDigit(p[d])
    /\ IsEnumEnd(p[n + 1])
    /\ AllSpaceFrom(p, n + 2)
IsAlphabeticMark(p) ==
  Len(p) >= 2 /\ IsLetter(p[1]) /\ IsEnumEnd(p[2]) /\ AllSpaceFrom(p, 3)
IsBulletMark(p) == Len(p) >= 1 /\ IsBullet(p[1]) /\ AllSpaceFrom(p, 2)

\* An enumerator/bullet prefix: a numeric enumerator, an alphabetic one and a
\* bullet in this order, each of them optional.
IsMarkPrefix(p) ==
  \E i, j \in 0..Len(p) :
    /\ i <= j
    /\ i = 0 \/ IsNumericMark(SubSeq(p, 1, i))
    /\ j = i \/ IsAlphabeticMark(SubSeq(p, i + 1, j))
    /\ j = Len(p) \/ IsBulletMark(SubSeq(p, j + 1, Len(p)))

\* No prefix reaches behind the first character that can be in none: a
\* character that is no digit, mark, bullet or whitespace, or a letter with
\* no "." or ")" behind it.
RECURSIVE MarkRun(_, _)
MarkRun(t, i) ==
  IF i > Len(t) THEN 0
  ELSE IF \/ IsDigit(t[i]) \/ IsEnumEnd(t[i]) \/ IsBullet(t[i]) \/ IsSpace(t[i])
          \/ (IsLetter(t[i]) /\ i < Len(t) /\ IsEnumEnd(t[i + 1]))
       THEN 1 + MarkRun(t, i + 1)
  ELSE 0

\* The line with its longest enumerator/bullet prefix removed.
WithoutMarks(line) ==
  LET ks == {k \in 0..MarkRun(line, 1) : IsMarkPrefix(SubSeq(line, 1, k))}
      longest == CHOOSE k \in ks : \A m \in ks : m <= k
  IN DropTo(line, longest + 1)

\* An all-caps line of 4 to 49 characters.
AllCapsShort(line) ==
  /\ \A i \in 1..Len(line) : ~(\E a \in 1..Len(LowerLetters) : line[i] = LowerLetters[a])
  /\ Len(line) \in 4..49

\* The first category in the order of the claim with a keyword in the text.
FirstCategory(text) ==
  IF \E k \in 1..Len(CategoryOrder) : Occurs(k, text)
  THEN CategoryOrder[CHOOSE k \in 1..Len(CategoryOrder) :
                       Occurs(k, text) /\ \A j \in 1..(k - 1) : ~Occurs(j, text)]
  ELSE "general"

\* The section in force at line n of the text: the last header before it.
SectionAt(lines, n) ==
  LET headers == {j \in 1..(n - 1) : AllCapsShort(Trim(lines[j]))} IN
  IF headers = {} THEN <<"G", "e", "n", "e", "r", "a", "l">>
  ELSE Trim(lines[CHOOSE j \in headers : \A m \in headers : m <= j])

C20_NormalizeIdempotent ==
  (call.fn \in {"cleanText", "DocumentProcessorService.cleanText"}) =>
    /\ call.times >= 1 => "\f" \notin Elements(call.once)
    /\ call.times = 2 => call.twice = call.once

\* C20 witness: a text with a form feed, a carriage return and a newline
\* between two letters was cleaned twice and kept both letters.
C20_Witness ==
  /\ call.fn = "cleanText" /\ call.times = 2
  /\ call.text = <<"x", "\f", "\r", "\n", "x">>
  /\ call.once = <<"x", " ", "x">>
  /\ call.twice = call.once

\* The text holds, between two characters that are not whitespace, a form
\* feed or a run of two or more newlines.
HasParagraphBreak(t) ==
  \E i, j, k \in 1..Len(t) :
    /\ i < j /\ j < k
    /\ ~IsSpace(t[i]) /\ ~IsSpace(t[k])
    /\ \A m \in (i + 1)..(k - 1) : IsSpace(t[m])
    /\ \/ t[j] = "\f"
       \/ t[j] = "\n" /\ t[j + 1] = "\n"

\* C21: normalize turns a form feed into a newline and a run of three or
\* more newlines into two, so a paragraph break of the input is still a
\* newline in the output; the output has no leading or trailing whitespace
\* and no run of three newlines.
C21_ParagraphBreaksSurvive ==
  (call.fn \in {"cleanText", "DocumentProcessorService.cleanText"} /\ call.times >= 1) =>
    /\ call.once = Trim(call.once)
    /\ ~Includes(call.once, <<"\n", "\n", "\n">>)
    /\ HasParagraphBreak(call.text) => "\n" \in Elements(call.once)

\* The media types the extraction is said to accept.
AcceptedTypes == {PDF, DOCX, DOC, PLAIN}

\* C22: extract accepts exactly PDF, DOCX, DOC and plain text: plain text
\* comes back as the decoded bytes, a parsed type as the parser's text or,
\* when the parser fails, as an extraction error; every other media type
\* fails as unsupported and returns no text.
C22_ExtractAcceptsFourTypes ==
  (call.fn \in Extractors /\ call.done) =>
    /\ call.mimeType \notin AcceptedTypes =>
         call.result = Thrown(UnsupportedFileType)
    /\ call.mimeType = PLAIN =>
         call.result = Returned(Text(ToStringUtf8(call.buffer)))
    /\ (call.mimeType \in AcceptedTypes \ {PLAIN} /\ call.parsed.threw) =>
         /\ call.result.threw
         /\ call.result.message # UnsupportedFileType
    /\ (call.mimeType \in AcceptedTypes \ {PLAIN} /\ ~call.parsed.threw) =>
         call.result = Returned(call.parsed.value)

\* The sequence of question identifiers of a question list.
Ids(qs) == [i \in 1..Len(qs) |-> qs[i].id]

PairwiseDistinct(seq) == \A i, j \in 1..Len(seq) : seq[i] = seq[j] => i = j

\* C23: the question identifiers of a Proposal are pairwise distinct, and no
\* step of generate-answer, bulk-generate, answer-update or proposal update
\* changes their sequence (the step that removes the whole Proposal is set
\* aside).
C23_IdsUniqueAndStable ==
  [][(\A r \in Req : req[r].pc # "harddelete") =>
       /\ PairwiseDistinct(Ids(stored'))
       /\ Ids(stored') = Ids(stored)]_vars

\* C24: deleting a Proposal is a soft delete: when a delete request has done
\* its work the Proposal is still in the table, with status deleted and the
\* questions it had; and no request ever removes the Proposal from the table.
C24_DeleteIsSoft ==
  /\ item.exists
  /\ \A r \in Req :
       (req[r].kind \in {"delete", "svcdelete"} /\ req[r].pc = "respond" /\ req[r].code = 200) =>
         /\ item.status = "deleted"
         /\ stored = req[r].readQs

\* The request named a question id that the Proposal it read does not hold.
NamesAbsentQuestion(r) ==
  /\ req[r].kind \in {"generate", "update", "svcupdate"}
  /\ req[r].pc \in {"write", "respond"}
  /\ FindIndex(req[r].readQs, req[r].qid) = 0

\* C25: generate-answer and answer-update given a questionId that is not in
\* the Proposal do not report success, write no question list and hand no
\* answer to the caller.
C25_AbsentQuestionIsNotFound ==
  \A r \in Req :
    NamesAbsentQuestion(r) =>
      /\ req[r].pc = "respond"
      /\ req[r].code # 200
      /\ req[r].wroteAt = 0
      /\ req[r].out \in {Text(<<"Question not found">>),
                         Text(<<"Answer and status are required">>)}
           \/ req[r].code = 500

\* The entries of both result lists that belong to the file at position i.
EntriesOf(i) ==
  Cardinality({ j \in 1..Len(call.successful) : call.successful[j].pos = i })
    + Cardinality({ j \in 1..Len(call.failed) : call.failed[j].pos = i })

\* The file failed at some await of its try block.
FileFailed(file) ==
  IF call.fn = "rfp/bulk-upload" THEN file.s3.threw ELSE KnowledgeFailure(file).threw

\* C26: when a bulk upload has answered, every file of the batch is in
\* exactly one of successful and failed, also the files after a failing one;
\* a file is in failed exactly when its upload or extraction failed, with its
\* name and the error's message; the two counts sum to the number of files.
C26_BulkUploadPartialFailure ==
  (call.fn \in BulkUploads /\ call.response.code = 200) =>
    /\ \A i \in 1..Len(call.files) : EntriesOf(i) = 1
    /\ \A j \in 1..Len(call.failed) :
         LET e == call.failed[j] IN
           /\ FileFailed(call.files[e.pos])
           /\ e.filename = call.files[e.pos].filename
           /\ e.error # ""
    /\ \A j \in 1..Len(call.successful) :
         ~FileFailed(call.files[call.successful[j].pos])
    /\ call.response.successful + call.response.failed = Len(call.files)
    /\ call.response.successful = Len(call.successful)
    /\ call.response.failed = Len(call.failed)

\* C26 witness: a batch of three whose first file failed at extraction and
\* whose later files were still processed, one stored and one failed.
C26_Witness ==
  /\ call.fn = "knowledge/bulk-upload" /\ call.response.code = 200
  /\ Len(call.files) = 3
  /\ Len(call.failed) = 2 /\ Len(call.successful) = 1
  /\ call.failed[1].pos = 1
  /\ call.failed[1].error = "Failed to extract text from PDF"
  /\ call.successful[1].pos = 2
  /\ call.failed[2].pos = 3

\* The ids of the questions that were pending in the list the request read,
\* in the Proposal's order.
PendingIdsRead(q) == [j \in 1..Len(q.pend) |-> q.readQs[q.pend[j]].id]

\* C27: a bulk request calls the model once for each question that was
\* pending when it read the Proposal, in the Proposal's order and never
\* again after a failure; a call starts only when every earlier call of the
\* request has its result, one call per step; the results are in that order.
C27_SequentialNoRetry ==
  /\ [](\A r \in Req :
          (req[r].kind = "bulk" /\ req[r].pc \in {"loop", "write", "respond"}) =>
            LET q == req[r] IN
            /\ Len(q.invoked) <= Len(q.pend)
            /\ q.invoked = SubSeq(PendingIdsRead(q), 1, Len(q.invoked))
            /\ Len(q.results) = Len(q.invoked)
            /\ \A j \in 1..Len(q.results) : q.results[j].questionId = q.invoked[j]
            /\ (q.pc \in {"write", "respond"} /\ Len(q.pend) > 0) =>
                 q.invoked = PendingIdsRead(q))
  /\ [][\A r \in Req :
          Len(req'[r].invoked) > Len(req[r].invoked) =>
            /\ Len(req[r].results) = Len(req[r].invoked)
            /\ Len(req'[r].invoked) = Len(req[r].invoked) + 1
            /\ Len(req'[r].results) = Len(req'[r].invoked)]_vars

\* C27 witness: three pending questions, the second call failed and was not
\* repeated: three calls in the order q1, q2, q3.
C27_Witness ==
  \E r \in Req :
    /\ req[r].kind = "bulk" /\ req[r].pc = "respond"
    /\ req[r].invoked = <<1, 2, 3>>
    /\ ~req[r].results[2].success
    /\ req[r].results[1].success /\ req[r].results[3].success

\* The statuses of the question lifecycle, drafted being stored as 'draft'.
LifecycleStatuses == {"pending", "draft", "approved", "edited"}

\* C28: every stored question has one of the lifecycle statuses, whatever
\* status an answer-update carries in its request.
C28_StatusInLifecycle ==
  \A i \in 1..Len(stored) : stored[i].status \in LifecycleStatuses

\* C29: the status of a stored question agrees with its answer fields: before
\* any write the questions are as segmentation made them (pending, no
\* answers, no confidence, no sources); a pending question has a null
\* draftAnswer; a drafted one has a draftAnswer, a confidence between 0 and
\* 1 (held in hundredths), sources and a generatedAt.
C29_StatusAgreesWithFields ==
  \A i \in 1..Len(stored) :
    LET q == stored[i] IN
    /\ nwrites = 0 =>
         /\ q.status = "pending"
         /\ q.draftAnswer = Null /\ q.finalAnswer = Null /\ q.confidence = Null
         /\ q.sources = << >>
    /\ q.status = "pending" => q.draftAnswer = Null
    /\ q.status = "draft" =>
         /\ q.draftAnswer # Null
         /\ q.confidence.type = "number"
         /\ q.confidence.n \in 0..100
         /\ q.sources # << >>
         /\ q.generatedAt # Undef

\* The entry at position i of the pool holds, in its title or its content and
\* without regard to case, a non-empty word of the query.
SharesWord(i) ==
  LET words == SplitOnWhitespace(ToLowerCase(call.query))
      content == ToLowerCase(OrEmpty(call.pool[i].content))
      title == ToLowerCase(OrEmpty(call.pool[i].title))
  IN \E j \in 1..Len(words) :
       /\ words[j] # << >>
       /\ Includes(content, words[j]) \/ Includes(title, words[j])

\* C30: retrieval returns an entry only if a non-empty word of the query
\* occurs in its title or content, for every query, also one with leading or
\* trailing whitespace or of whitespace only.
C30_OnlySharedWords ==
  (Searched("searchKnowledgeBase") \/ Searched("searchRoute")) =>
    \A k \in 1..Len(call.result.value) : SharesWord(call.result.value[k].pos)

====
